---------------------------- MODULE Spec2Model ----------------------------
(***************************************************************************)
(* Model of the archiver package: ZipParallelAll (ordered parallel packer) *)
(* and UnzipParallelAll (bounded parallel unpacker) with ensureInside.     *)
(* Strings are sequences of one-character strings, so that the path        *)
(* functions of path/filepath (Unix flavour) are computed, not assumed.    *)
(***************************************************************************)
EXTENDS Integers, Sequences, FiniteSets, TLC

\* ------------------------------------------------------------------ bounds
\* runtime.NumCPU() of the machine the program runs on
NumCPU == 2
\* largest number of paths a walk yields in the model (the root included)
MaxPaths == 4
\* largest number of entries of an archive given to UnzipParallelAll
MaxEntries == 3

\* ----------------------------------------------------------------- strings
Sep == "/"
Dot == <<".">>
DotDot == <<".", ".">>

\* byte order of the characters the model uses (sort.Strings compares bytes)
Ord(c) ==
  CASE c = "." -> 46
    [] c = "/" -> 47
    [] c = "a" -> 97
    [] c = "b" -> 98
    [] c = "d" -> 100
    [] c = "e" -> 101
    [] OTHER -> 127

RECURSIVE StrLess(_, _)
\* s < t as Go compares strings
StrLess(s, t) ==
  IF t = <<>> THEN FALSE
  ELSE IF s = <<>> THEN TRUE
  ELSE IF Ord(Head(s)) # Ord(Head(t)) THEN Ord(Head(s)) < Ord(Head(t))
  ELSE StrLess(Tail(s), Tail(t))

\* strings.HasPrefix
HasPrefix(s, prefix) ==
  /\ Len(s) >= Len(prefix)
  /\ SubSeq(s, 1, Len(prefix)) = prefix

RECURSIVE SplitFrom(_, _, _)
\* the elements of s between separators, scanning from position i
SplitFrom(s, i, cur) ==
  IF i > Len(s) THEN <<cur>>
  ELSE IF s[i] = Sep THEN <<cur>> \o SplitFrom(s, i + 1, <<>>)
  ELSE SplitFrom(s, i + 1, Append(cur, s[i]))

Elements(s) == SplitFrom(s, 1, <<>>)

RECURSIVE JoinSep(_)
\* elements joined by the separator
JoinSep(els) ==
  IF els = <<>> THEN <<>>
  ELSE IF Len(els) = 1 THEN els[1]
  ELSE els[1] \o <<Sep>> \o JoinSep(Tail(els))

RECURSIVE CleanElems(_, _, _)
\* the loop of filepath.Clean over the path's elements
CleanElems(els, rooted, out) ==
  IF els = <<>> THEN out
  ELSE LET e == Head(els)
           rest == Tail(els)
       IN  IF e = <<>> \/ e = Dot THEN CleanElems(rest, rooted, out)
           ELSE IF e = DotDot
             THEN IF out # <<>> /\ out[Len(out)] # DotDot
                    THEN CleanElems(rest, rooted, SubSeq(out, 1, Len(out) - 1))
                  ELSE IF rooted THEN CleanElems(rest, rooted, out)
                  ELSE CleanElems(rest, rooted, Append(out, DotDot))
           ELSE CleanElems(rest, rooted, Append(out, e))

\* filepath.Clean
Clean(path) ==
  IF path = <<>> THEN Dot
  ELSE LET rooted == path[1] = Sep
           out == CleanElems(Elements(path), rooted, <<>>)
       IN  IF rooted THEN <<Sep>> \o JoinSep(out)
           ELSE IF out = <<>> THEN Dot
           ELSE JoinSep(out)

\* filepath.Join of two elements
Join(a, b) ==
  IF a = <<>> /\ b = <<>> THEN <<>>
  ELSE IF a = <<>> THEN Clean(b)
  ELSE IF b = <<>> THEN Clean(a)
  ELSE Clean(a \o <<Sep>> \o b)

RECURSIVE TrimSlashes(_)
TrimSlashes(s) ==
  IF s # <<>> /\ s[Len(s)] = Sep THEN TrimSlashes(SubSeq(s, 1, Len(s) - 1))
  ELSE s

\* position of the last separator of s, 0 when there is none
LastSep(s) ==
  LET at == {i \in 1..Len(s) : s[i] = Sep}
  IN  IF at = {} THEN 0 ELSE CHOOSE i \in at : \A j \in at : j <= i

\* filepath.Base
Base(path) ==
  IF path = <<>> THEN Dot
  ELSE LET t == TrimSlashes(path)
       IN  IF t = <<>> THEN <<Sep>>
           ELSE SubSeq(t, LastSep(t) + 1, Len(t))

\* filepath.Dir
Dir(path) == Clean(SubSeq(path, 1, LastSep(path)))

RECURSIVE CommonLen(_, _)
\* number of leading elements two element lists share
CommonLen(b, t) ==
  IF b = <<>> \/ t = <<>> \/ Head(b) # Head(t) THEN 0
  ELSE 1 + CommonLen(Tail(b), Tail(t))

\* the elements of a cleaned path ("." has none, "/" has none)
CleanedElems(p) ==
  IF p = Dot \/ p = <<Sep>> THEN <<>>
  ELSE IF p[1] = Sep THEN Elements(Tail(p))
  ELSE Elements(p)

\* filepath.Rel; the empty string stands for the ("", err) result
Rel(basepath, targpath) ==
  LET base == Clean(basepath)
      targ == Clean(targpath)
      be == CleanedElems(base)
      te == CleanedElems(targ)
      n == CommonLen(be, te)
      brest == SubSeq(be, n + 1, Len(be))
      trest == SubSeq(te, n + 1, Len(te))
  IN  IF targ = base THEN Dot
      ELSE IF (base[1] = Sep) # (targ[1] = Sep) THEN <<>>
      ELSE IF brest # <<>> /\ brest[1] = DotDot THEN <<>>
      ELSE JoinSep([i \in 1..Len(brest) |-> DotDot] \o trest)

RECURSIVE SortStrings(_)
\* sort.Strings of a set of distinct strings
SortStrings(S) ==
  IF S = {} THEN <<>>
  ELSE LET m == CHOOSE x \in S : \A y \in S \ {x} : StrLess(x, y)
       IN  <<m>> \o SortStrings(S \ {m})


\* ------------------------------------------------------------------ errors
NoErr == [kind |-> "nil"]
\* the error of the operation op on the path p; idx is the sequence number of
\* the entry it belongs to, -1 when it belongs to none
Err(op, p, i) == [kind |-> op, path |-> p, idx |-> i]

\* ================================================================ packing
\* what ZipParallelAll may be asked to pack: the src argument as given, and
\* whether it names a directory
Sources ==
  { [arg |-> <<"d">>, dir |-> TRUE],
    [arg |-> <<"/", "e", "/", "d", "/">>, dir |-> TRUE],
    [arg |-> <<"a">>, dir |-> FALSE],
    [arg |-> <<"e", "/", ".", "/", "b">>, dir |-> FALSE],
    [arg |-> <<"/", "e", "/", "d", "/", "a">>, dir |-> FALSE] }

\* what a packed directory may hold, relative to it: files a, b and the
\* directory e with the file e/a
KidA == <<"a">>
KidB == <<"b">>
KidE == <<"e">>
KidEA == <<"e", "/", "a">>
Kids == {KidA, KidB, KidE, KidEA}
KidDirs == {KidE}
Trees == {K \in SUBSET Kids : (KidEA \in K => KidE \in K) /\ Cardinality(K) + 1 <= MaxPaths}

VARIABLES
  ncpu,        \* what runtime.NumCPU() returns on this machine
  zarg,        \* src as given
  zdir,        \* src names a directory
  zkids,       \* the tree below src (empty for a file)
  zsrc,        \* src after filepath.Clean
  paths,       \* the sorted walk
  baseDir,
  zpc,         \* where ZipParallelAll is: start, create, loop, drain, flush, done
  zret,        \* its return value
  created,     \* os.Create made the archive file
  finalized,   \* zw.Close wrote the trailer
  container,   \* headers written by zw.CreateHeader, in order
  commits,     \* sequence numbers writeOne was done with, in order
  jobsCh, jobsClosed, fi,
  wk,          \* preparer workers
  resCh, resClosed,
  next, pending,
  now,         \* what time.Now() returns: 1 in the first run, 2 in a second
  prev,        \* the container the first run made, once a second run started
  prepFailed,  \* history: sequence numbers whose preparation failed
  reordered    \* history: some result arrived ahead of its turn and was held

zipIn == <<ncpu, zarg, zdir, zkids>>
zipRun == <<now, prev>>
zipWalk == <<zsrc, paths, baseDir>>
zipOut == <<created, finalized, container, commits>>
zipFeed == <<jobsCh, jobsClosed, fi>>
zipRes == <<resCh, resClosed>>
zipWr == <<next, pending>>
zipHist == <<prepFailed, reordered>>
zipVars == <<zipIn, zipRun, zipWalk, zpc, zret, zipOut, zipFeed, wk, zipRes, zipWr, zipHist>>

\* the state of UnzipParallelAll
VARIABLES
  udest,       \* destDir
  uentries,    \* r.File, the entry names in the archive's order
  upc,         \* where UnzipParallelAll is: open, prepass, spawn, wait, done
  ui,          \* the entry the running loop is at
  uret,        \* its return value
  wpc,         \* restore workers, by entry: none, wait, gate, mkdir, create, copy, done
  sem,         \* permits taken (length of the sem channel)
  errOnce,     \* the channel of capacity 1 holding the first error
  umkdirs,     \* directories os.MkdirAll was called to make
  ufiles,      \* files os.OpenFile created
  urestored,   \* entries restored completely
  unotime,     \* history: restored entries whose os.Chtimes failed
  ufailed,     \* history: entries that failed
  uerrs        \* history: the errors that occurred

unzipIn == <<udest, uentries>>
unzipFs == <<umkdirs, ufiles, urestored>>
unzipHist == <<unotime, ufailed, uerrs>>
unzipVars == <<unzipIn, upc, ui, uret, wpc, sem, errOnce, unzipFs, unzipHist>>

\* jobs := runtime.NumCPU() workers
Workers == 1..ncpu
\* capacity of jobsCh and of resCh
ChanCap == 2 * ncpu

NoHdr == [name |-> <<>>, method |-> "none", modified |-> 0]
NoResult == [idx |-> -1, hdr |-> NoHdr, write |-> FALSE, err |-> NoErr]

\* filepath.WalkDir: the root and everything below it
WalkDir(root, kids) == {root} \cup {Join(root, k) : k \in kids}
\* os.Stat(p).IsDir() for a path of the walk
IsDirPath(p) == zdir /\ (p = zsrc \/ \E k \in KidDirs \cap zkids : p = Join(zsrc, k))

\* a search that counts positions from 1
indexOfOneBased(arr, x) ==
  LET at == {i \in 1..Len(arr) : arr[i] = x}
  IN  IF at = {} THEN -1 ELSE CHOOSE i \in at : \A j \in at : i <= j

\* indexOf: the first position of x in arr, counted from 0; -1 when absent
indexOf(arr, x) ==
  LET at == {i \in 1..Len(arr) : arr[i] = x}
  IN  IF at = {} THEN -1 ELSE (CHOOSE i \in at : \A j \in at : i <= j) - 1

\* toZipPath: os.PathSeparator is "/" here, so nothing is replaced
toZipPath(p) == p

\* relInside without the single-file case: the name keeps its directories
relInsideFull(srcRoot, base, full) ==
  IF base = <<>> THEN full
  ELSE IF full = srcRoot THEN base
  ELSE Rel(Dir(srcRoot), full)

relInside(srcRoot, base, full) ==
  IF base = <<>> THEN Base(full)
  ELSE IF full = srcRoot THEN base
  ELSE Rel(Dir(srcRoot), full)

\* what a worker makes of the path p; outcome is what os.Stat and
\* zip.FileInfoHeader do: "ok", "stat" (Stat fails), "hdr" (FileInfoHeader fails)
Prepare(p, outcome) ==
  LET idx == indexOf(paths, p)
      rel == relInside(zsrc, baseDir, p)
  IN  IF outcome = "stat"
        THEN [idx |-> idx, hdr |-> NoHdr, write |-> FALSE, err |-> Err("stat", p, idx)]
      ELSE IF IsDirPath(p)
        THEN IF rel # <<>>
               THEN [idx |-> idx, hdr |-> [name |-> toZipPath(rel) \o <<Sep>>, method |-> "store",
                             modified |-> now],
                     write |-> FALSE, err |-> NoErr]
             ELSE [idx |-> idx, hdr |-> NoHdr, write |-> FALSE, err |-> NoErr]
      ELSE IF outcome = "hdr"
        THEN [idx |-> idx, hdr |-> NoHdr, write |-> FALSE, err |-> Err("fileinfo", p, idx)]
      ELSE [idx |-> idx, hdr |-> [name |-> toZipPath(rel), method |-> "deflate", modified |-> now],
            write |-> TRUE, err |-> NoErr]

ZipInit ==
  /\ ncpu \in {1, NumCPU}
  /\ \E s \in Sources :
       /\ zarg = s.arg
       /\ zdir = s.dir
       /\ zkids \in (IF s.dir THEN Trees ELSE {{}})
  /\ now = 1 /\ prev = <<>>
  /\ zsrc = <<>> /\ paths = <<>> /\ baseDir = <<>>
  /\ zpc = "start" /\ zret = NoErr
  /\ created = FALSE /\ finalized = FALSE /\ container = <<>> /\ commits = <<>>
  /\ jobsCh = <<>> /\ jobsClosed = FALSE /\ fi = 1
  /\ wk = [w \in Workers |-> [pc |-> "off", res |-> NoResult]]
  /\ resCh = <<>> /\ resClosed = FALSE
  /\ next = 0 /\ pending = {}
  /\ prepFailed = {} /\ reordered = FALSE

\* a pack that creates the archive file before it walks the source
ZipWalkAfterCreate ==
  /\ zpc = "start"
  /\ \E outcome \in {"ok", "stat", "mkdir", "walk"} :
       LET s == Clean(zarg) IN
       IF outcome = "ok"
         THEN /\ zsrc' = s
              /\ paths' = SortStrings(WalkDir(s, zkids))
              /\ zpc' = "create"
              /\ UNCHANGED <<baseDir, zret, created>>
         ELSE /\ zsrc' = s
              /\ zpc' = "done"
              /\ zret' = Err(outcome, s, -1)
              /\ created' = (outcome = "walk")
              /\ UNCHANGED <<paths, baseDir>>
  /\ UNCHANGED <<zipIn, zipRun, finalized, container, commits, zipFeed, wk, zipRes, zipWr, zipHist>>
  /\ UNCHANGED unzipVars

\* lines 46-67: Clean, Stat, MkdirAll of the archive's directory, the walk and
\* the sort; any of the three calls may fail, and then nothing is created
ZipWalk ==
  /\ zpc = "start"
  /\ \E outcome \in {"ok", "stat", "mkdir", "walk"} :
       LET s == Clean(zarg) IN
       IF outcome = "ok"
         THEN /\ zsrc' = s
              /\ paths' = SortStrings(WalkDir(s, zkids))
              /\ zpc' = "create"
              /\ UNCHANGED <<baseDir, zret>>
         ELSE /\ zsrc' = s
              /\ zpc' = "done"
              /\ zret' = Err(outcome, s, -1)
              /\ UNCHANGED <<paths, baseDir>>
  /\ UNCHANGED <<zipIn, zipRun, zipOut, zipFeed, wk, zipRes, zipWr, zipHist>>
  /\ UNCHANGED unzipVars

\* lines 69-198: os.Create, zip.NewWriter, baseDir, and the go statements that
\* start the workers, the feeder and the closer
ZipCreate ==
  /\ zpc = "create"
  /\ \E ok \in BOOLEAN :
       IF ok
         THEN /\ created' = TRUE
              /\ baseDir' = (IF zdir THEN Base(zsrc) ELSE <<>>)
              /\ wk' = [w \in Workers |-> [pc |-> "recv", res |-> NoResult]]
              /\ zpc' = "loop"
              /\ UNCHANGED zret
         ELSE /\ zpc' = "done"
              /\ zret' = Err("create", zsrc, -1)
              /\ UNCHANGED <<created, baseDir, wk>>
  /\ UNCHANGED <<zipIn, zipRun, zsrc, paths, finalized, container, commits, zipFeed, zipRes, zipWr, zipHist>>
  /\ UNCHANGED unzipVars

Running == created

\* lines 187-192: the feeder sends the next path, blocking while jobsCh is full
FeederSend ==
  /\ Running /\ ~jobsClosed
  /\ fi <= Len(paths)
  /\ Len(jobsCh) < ChanCap
  /\ jobsCh' = Append(jobsCh, paths[fi])
  /\ fi' = fi + 1
  /\ UNCHANGED <<zipIn, zipRun, zipWalk, zpc, zret, zipOut, jobsClosed, wk, zipRes, zipWr, zipHist>>
  /\ UNCHANGED unzipVars

FeederClose ==
  /\ Running /\ ~jobsClosed
  /\ fi > Len(paths)
  /\ jobsClosed' = TRUE
  /\ UNCHANGED <<zipIn, zipRun, zipWalk, zpc, zret, zipOut, jobsCh, fi, wk, zipRes, zipWr, zipHist>>
  /\ UNCHANGED unzipVars

\* lines 138-181: a worker takes a path and prepares its result
WorkerRecv(w) ==
  /\ wk[w].pc = "recv"
  /\ jobsCh # <<>>
  /\ \E outcome \in {"ok", "stat", "hdr"} :
       LET r == Prepare(Head(jobsCh), outcome) IN
       /\ wk' = [wk EXCEPT ![w] = [pc |-> "send", res |-> r]]
       /\ prepFailed' = IF r.err # NoErr THEN prepFailed \cup {r.idx} ELSE prepFailed
  /\ jobsCh' = Tail(jobsCh)
  /\ UNCHANGED <<zipIn, zipRun, zipWalk, zpc, zret, zipOut, jobsClosed, fi, zipRes, zipWr, reordered>>
  /\ UNCHANGED unzipVars

\* resCh <- result, blocking while resCh is full
WorkerSend(w) ==
  /\ wk[w].pc = "send"
  /\ Len(resCh) < ChanCap
  /\ resCh' = Append(resCh, wk[w].res)
  /\ wk' = [wk EXCEPT ![w] = [pc |-> "recv", res |-> NoResult]]
  /\ UNCHANGED <<zipIn, zipRun, zipWalk, zpc, zret, zipOut, zipFeed, resClosed, zipWr, zipHist>>
  /\ UNCHANGED unzipVars

\* the range over jobsCh ends: wg.Done
WorkerExit(w) ==
  /\ wk[w].pc = "recv"
  /\ jobsCh = <<>> /\ jobsClosed
  /\ wk' = [wk EXCEPT ![w].pc = "done"]
  /\ UNCHANGED <<zipIn, zipRun, zipWalk, zpc, zret, zipOut, zipFeed, zipRes, zipWr, zipHist>>
  /\ UNCHANGED unzipVars

\* a closer whose wg.Wait() never returns: a worker that does not call
\* wg.Done() leaves the counter above zero
CloseResNoDone ==
  /\ Running /\ ~resClosed
  /\ \A w \in Workers : wk[w].pc = "gone"
  /\ resClosed' = TRUE
  /\ UNCHANGED <<zipIn, zipRun, zipWalk, zpc, zret, zipOut, zipFeed, wk, resCh, zipWr, zipHist>>
  /\ UNCHANGED unzipVars

\* lines 195-198: wg.Wait, close(resCh)
CloseRes ==
  /\ Running /\ ~resClosed
  /\ \A w \in Workers : wk[w].pc = "done"
  /\ resClosed' = TRUE
  /\ UNCHANGED <<zipIn, zipRun, zipWalk, zpc, zret, zipOut, zipFeed, wk, resCh, zipWr, zipHist>>
  /\ UNCHANGED unzipVars

\* ------------------------------------------------------- the Ordered Writer
\* pending is the map of line 202, kept as the set of its values
HasPending(pend, k) == \E q \in pend : q.idx = k
GetPending(pend, k) == CHOOSE q \in pend : q.idx = k
\* a holding area that forgets what it is given
PendingPutDropped(pend, r) == pend

\* pending[r.idx] = r
PendingPut(pend, r) == {q \in pend : q.idx # r.idx} \cup {r}
\* delete(pending, k)
PendingDel(pend, k) == {q \in pend : q.idx # k}

\* a writer that writes every result as it arrives
DispatchOnArrival(r, nxt) ==
  IF r.err # NoErr THEN "return" ELSE "write"

\* a writer that returns an error as soon as it sees one
DispatchErrFirst(r, nxt) ==
  IF r.err # NoErr THEN "return"
  ELSE IF r.idx = nxt THEN "write"
  ELSE "hold"

\* lines 235-259: what the loop does with a received result: "return" its
\* error, "write" it, or "hold" it in pending
Dispatch(r, nxt) ==
  IF r.idx = nxt
    THEN IF r.err # NoErr THEN "return" ELSE "write"
    ELSE "hold"

\* writeOne (lines 113-126) on the container cont; io is what the codec does:
\* "ok", "header" (CreateHeader fails), "content" (r.write fails after the
\* header was written)
writeOne(r, cont, io) ==
  IF r.hdr = NoHdr /\ ~r.write THEN [err |-> NoErr, cont |-> cont]
  ELSE IF io = "header" THEN [err |-> Err("header", r.hdr.name, r.idx), cont |-> cont]
  ELSE IF r.write /\ io = "content"
    THEN [err |-> Err("content", r.hdr.name, r.idx), cont |-> Append(cont, r.hdr)]
  ELSE [err |-> NoErr, cont |-> Append(cont, r.hdr)]

\* return e from the loop: the deferred zw.Close() of line 76 runs and, unless
\* the file refuses the write, puts the trailer into the container
ZipReturn(e) ==
  /\ zpc' = "done"
  /\ zret' = e
  /\ \E closeOk \in BOOLEAN : finalized' = closeOk

\* r.err is returned, or r is written and next advances (lines 206-213,
\* 224-231, 236-242, 248-255)
CommitOrFail(r, io, nextPc) ==
  IF r.err # NoErr
    THEN /\ ZipReturn(r.err)
         /\ UNCHANGED <<container, commits, next, pending>>
    ELSE LET w == writeOne(r, container, io) IN
         /\ container' = w.cont
         /\ IF w.err # NoErr
              THEN /\ ZipReturn(w.err)
                   /\ UNCHANGED <<commits, next, pending>>
              ELSE /\ commits' = Append(commits, r.idx)
                   /\ pending' = PendingDel(pending, next)
                   /\ next' = next + 1
                   /\ zpc' = nextPc
                   /\ UNCHANGED <<zret, finalized>>

IoOutcomes == {"ok", "header", "content"}

\* lines 204-216 and 235-259: one turn of the loop up to the write of the
\* received result
WriterLoop ==
  /\ zpc = "loop"
  /\ IF HasPending(pending, next)
       THEN /\ \E io \in IoOutcomes : CommitOrFail(GetPending(pending, next), io, "loop")
            /\ UNCHANGED zipRes
       ELSE IF resCh # <<>>
         THEN LET r == Head(resCh)
                  d == Dispatch(r, next)
              IN  /\ resCh' = Tail(resCh)
                  /\ UNCHANGED resClosed
                  /\ IF d = "hold"
                       THEN /\ pending' = PendingPut(pending, r)
                            /\ UNCHANGED <<zpc, zret, finalized, container, commits, next>>
                       ELSE IF d = "return"
                         THEN /\ ZipReturn(r.err)
                              /\ UNCHANGED <<container, commits, next, pending>>
                       ELSE \E io \in IoOutcomes : CommitOrFail(r, io, "drain")
         ELSE /\ resClosed
              /\ zpc' = "flush"
              /\ UNCHANGED <<zret, finalized, container, commits, next, pending, zipRes>>
  /\ UNCHANGED <<zipIn, zipRun, zipWalk, created, zipFeed, wk, prepFailed>>
  /\ reordered' = (reordered \/ (~HasPending(pending, next) /\ resCh # <<>>
                                   /\ Dispatch(Head(resCh), next) = "hold"))
  /\ UNCHANGED unzipVars

\* lines 243-256: after a write, the now-contiguous held results
WriterDrain ==
  /\ zpc = "drain"
  /\ IF HasPending(pending, next)
       THEN \E io \in IoOutcomes : CommitOrFail(GetPending(pending, next), io, "drain")
       ELSE /\ zpc' = "loop"
            /\ UNCHANGED <<zret, finalized, container, commits, next, pending>>
  /\ UNCHANGED <<zipIn, zipRun, zipWalk, created, zipFeed, wk, zipRes, zipHist>>
  /\ UNCHANGED unzipVars

\* lines 217-233 and 262-266: resCh is closed; the held results in order, then
\* zw.Close() and out.Close()
WriterFlush ==
  /\ zpc = "flush"
  /\ IF HasPending(pending, next)
       THEN \E io \in IoOutcomes : CommitOrFail(GetPending(pending, next), io, "flush")
       ELSE /\ zpc' = "done"
            /\ \E closing \in {"ok", "zw", "out"} :
                 /\ finalized' = (closing # "zw")
                 /\ zret' = IF closing = "ok" THEN NoErr ELSE Err("close", <<>>, -1)
            /\ UNCHANGED <<container, commits, next, pending>>
  /\ UNCHANGED <<zipIn, zipRun, zipWalk, created, zipFeed, wk, zipRes, zipHist>>
  /\ UNCHANGED unzipVars

\* ============================================================== unpacking
\* the destDir arguments UnzipParallelAll is given: relative, absolute, the
\* current directory, its parent, the filesystem root
Roots == { <<"d">>, <<"/", "d">>, Dot, DotDot, <<Sep>> }

\* the entry names an archive may hold: files a and e/a, the directory e/,
\* and the crafted names ../b (a file) and ../e/ (a directory)
EntryNames ==
  { <<"a">>, <<"e", "/">>, <<"e", "/", "a">>,
    <<".", ".", "/", "b">>, <<".", ".", "/", "e", "/">> }

\* r.File of an archive: up to MaxEntries entries of different names
Archives ==
  UNION { {a \in [1..n -> EntryNames] : \A i, j \in 1..n : i # j => a[i] # a[j]} : n \in 0..MaxEntries }


\* capacity of the sem channel: workers := runtime.NumCPU()
SemCap == NumCPU

\* f.FileInfo().IsDir(): the codec marks a name ending in "/" as a directory
IsDirEntry(name) == name # <<>> /\ name[Len(name)] = Sep

\* ensureInside (lines 377-390)
ensureInside(base, target) ==
  LET cleanBase == Clean(base)
      cleanTarget == Clean(target)
      withSep == cleanBase \o <<Sep>>
  IN  IF cleanTarget = cleanBase THEN NoErr
      ELSE IF ~HasPrefix(cleanTarget, withSep) THEN Err("zip slip", target, -1)
      ELSE NoErr

\* an error slot that has no buffer: the select always takes its default
setErrUnbuffered(slot, e) == slot

\* a slot that keeps the last error it is given
setErrOverwrite(slot, e) == <<e>>

\* setErr (lines 303-305): a send that is dropped when the slot is full
setErr(slot, e) == IF Len(slot) < 1 THEN Append(slot, e) ELSE slot

\* a semaphore that never blocks
CanAcquireAlways(n) == TRUE

\* sem <- struct{}{} can proceed
CanAcquire(n) == n < SemCap

\* a pre-pass that stops after its first entry
PrePassOverEarly(i, n) == i > 1 \/ i > n

\* the range of lines 283-294 is over
PrePassOver(i, n) == i > n

UnzipEntries == 1..Len(uentries)
Target(i) == Join(udest, uentries[i])

UnzipInit ==
  /\ udest \in Roots
  /\ uentries \in Archives
  /\ upc = "open" /\ ui = 1 /\ uret = NoErr
  /\ wpc = [i \in UnzipEntries |-> "none"]
  /\ sem = 0 /\ errOnce = <<>>
  /\ umkdirs = {} /\ ufiles = {} /\ urestored = {}
  /\ unotime = {} /\ ufailed = {} /\ uerrs = {}

\* lines 271-280: zip.OpenReader and os.MkdirAll(destDir)
UnzipOpen ==
  /\ upc = "open"
  /\ \E outcome \in {"ok", "openreader", "mkdirdest"} :
       IF outcome = "ok"
         THEN /\ upc' = "prepass"
              /\ umkdirs' = {Clean(udest)}
              /\ UNCHANGED uret
         ELSE /\ upc' = "done"
              /\ uret' = Err(outcome, udest, -1)
              /\ UNCHANGED umkdirs
  /\ UNCHANGED <<unzipIn, ui, wpc, sem, errOnce, ufiles, urestored, unzipHist>>
  /\ UNCHANGED zipVars

\* entry i failed with e
Failed(i, e) ==
  /\ ufailed' = ufailed \cup {i}
  /\ uerrs' = uerrs \cup {e}

\* lines 283-294: one turn of the directory pre-pass
PrePass ==
  /\ upc = "prepass"
  /\ IF PrePassOver(ui, Len(uentries))
       THEN /\ upc' = "spawn"
            /\ ui' = 1
            /\ UNCHANGED <<uret, umkdirs, unzipHist>>
       ELSE IF ~IsDirEntry(uentries[ui])
         THEN /\ ui' = ui + 1
              /\ UNCHANGED <<upc, uret, umkdirs, unzipHist>>
       ELSE LET target == Target(ui)
                gate == ensureInside(udest, target)
            IN  IF gate # NoErr
                  THEN /\ upc' = "done"
                       /\ uret' = gate
                       /\ Failed(ui, gate)
                       /\ UNCHANGED <<ui, umkdirs, unotime>>
                  ELSE \E ok \in BOOLEAN :
                         IF ok
                           THEN /\ umkdirs' = umkdirs \cup {target}
                                /\ ui' = ui + 1
                                /\ UNCHANGED <<upc, uret, unzipHist>>
                           ELSE /\ upc' = "done"
                                /\ uret' = Err("mkdir", target, ui)
                                /\ Failed(ui, Err("mkdir", target, ui))
                                /\ UNCHANGED <<ui, umkdirs, unotime>>
  /\ UNCHANGED <<unzipIn, wpc, sem, errOnce, ufiles, urestored>>
  /\ UNCHANGED zipVars

\* lines 307-362: one turn of the loop that starts a worker per file entry
Spawn ==
  /\ upc = "spawn"
  /\ IF ui > Len(uentries)
       THEN /\ upc' = "wait"
            /\ UNCHANGED <<ui, wpc>>
       ELSE /\ ui' = ui + 1
            /\ wpc' = IF IsDirEntry(uentries[ui]) THEN wpc ELSE [wpc EXCEPT ![ui] = "wait"]
            /\ UNCHANGED upc
  /\ UNCHANGED <<unzipIn, uret, sem, errOnce, unzipFs, unzipHist>>
  /\ UNCHANGED zipVars

\* line 317: the worker takes a permit
Acquire(i) ==
  /\ wpc[i] = "wait"
  /\ CanAcquire(sem)
  /\ sem' = sem + 1
  /\ wpc' = [wpc EXCEPT ![i] = "gate"]
  /\ UNCHANGED <<unzipIn, upc, ui, uret, errOnce, unzipFs, unzipHist>>
  /\ UNCHANGED zipVars

\* a worker that returns with an error without giving its permit back
WorkerFailsLeaking(i, e) ==
  /\ errOnce' = setErr(errOnce, e)
  /\ Failed(i, e)
  /\ sem' = sem
  /\ wpc' = [wpc EXCEPT ![i] = "done"]
  /\ UNCHANGED unotime

\* the worker of entry i returns with the error e: setErr, then the deferred
\* release of the permit and wg.Done
WorkerFails(i, e) ==
  /\ errOnce' = setErr(errOnce, e)
  /\ Failed(i, e)
  /\ sem' = sem - 1
  /\ wpc' = [wpc EXCEPT ![i] = "done"]
  /\ UNCHANGED unotime

\* lines 320-326: the zip-slip check of the worker
Gate(i) ==
  /\ wpc[i] = "gate"
  /\ LET gate == ensureInside(udest, Target(i))
     IN  IF gate # NoErr
           THEN WorkerFails(i, gate)
           ELSE /\ wpc' = [wpc EXCEPT ![i] = "mkdir"]
                /\ UNCHANGED <<sem, errOnce, unzipHist>>
  /\ UNCHANGED <<unzipIn, upc, ui, uret, unzipFs>>
  /\ UNCHANGED zipVars

\* lines 328-332: os.MkdirAll of the parent directory
Mkdir(i) ==
  /\ wpc[i] = "mkdir"
  /\ \E ok \in BOOLEAN :
       IF ok
         THEN /\ umkdirs' = umkdirs \cup {Dir(Target(i))}
              /\ wpc' = [wpc EXCEPT ![i] = "create"]
              /\ UNCHANGED <<sem, errOnce, unzipHist>>
         ELSE /\ WorkerFails(i, Err("mkdir", Dir(Target(i)), i))
              /\ UNCHANGED umkdirs
  /\ UNCHANGED <<unzipIn, upc, ui, uret, ufiles, urestored>>
  /\ UNCHANGED zipVars

\* lines 334-346: f.Open and os.OpenFile
Create(i) ==
  /\ wpc[i] = "create"
  /\ \E outcome \in {"ok", "open", "create"} :
       IF outcome = "ok"
         THEN /\ ufiles' = ufiles \cup {Target(i)}
              /\ wpc' = [wpc EXCEPT ![i] = "copy"]
              /\ UNCHANGED <<sem, errOnce, unzipHist>>
         ELSE /\ WorkerFails(i, Err(outcome, Target(i), i))
              /\ UNCHANGED ufiles
  /\ UNCHANGED <<unzipIn, upc, ui, uret, umkdirs, urestored>>
  /\ UNCHANGED zipVars

\* lines 348-361: io.Copy, dst.Close, os.Chtimes whose error is dropped, and
\* the deferred release of the permit
Copy(i) ==
  /\ wpc[i] = "copy"
  /\ \E outcome \in {"ok", "notime", "copy", "close"} :
       IF outcome \in {"ok", "notime"}
         THEN /\ urestored' = urestored \cup {i}
              /\ unotime' = IF outcome = "notime" THEN unotime \cup {i} ELSE unotime
              /\ sem' = sem - 1
              /\ wpc' = [wpc EXCEPT ![i] = "done"]
              /\ UNCHANGED <<errOnce, ufailed, uerrs>>
         ELSE /\ WorkerFails(i, Err(outcome, Target(i), i))
              /\ UNCHANGED urestored
  /\ UNCHANGED <<unzipIn, upc, ui, uret, umkdirs, ufiles>>
  /\ UNCHANGED zipVars

\* a wait that returns as soon as one worker has finished
WgWaitOne(pcs) == \E i \in DOMAIN pcs : pcs[i] = "done"

\* wg.Wait() returns: every started worker has called wg.Done
WgWait(pcs) == \A i \in DOMAIN pcs : pcs[i] \in {"none", "done"}

\* lines 364-373: wg.Wait, then the first error if there is one
WaitAll ==
  /\ upc = "wait"
  /\ WgWait(wpc)
  /\ upc' = "done"
  /\ uret' = IF errOnce # <<>> THEN Head(errOnce) ELSE NoErr
  /\ errOnce' = IF errOnce # <<>> THEN Tail(errOnce) ELSE errOnce
  /\ UNCHANGED <<unzipIn, ui, wpc, sem, unzipFs, unzipHist>>
  /\ UNCHANGED zipVars

UnzipNext ==
  \/ UnzipOpen
  \/ PrePass
  \/ Spawn
  \/ \E i \in UnzipEntries : Acquire(i)
  \/ \E i \in UnzipEntries : Gate(i)
  \/ \E i \in UnzipEntries : Mkdir(i)
  \/ \E i \in UnzipEntries : Create(i)
  \/ \E i \in UnzipEntries : Copy(i)
  \/ WaitAll

\* ---------------------------------------------------------- specifications
vars == <<zipVars, unzipVars>>

\* the other operation is not running
ZipIdle ==
  /\ ncpu = 1 /\ now = 1 /\ prev = <<>>
  /\ zarg = <<>> /\ zdir = FALSE /\ zkids = {}
  /\ zsrc = <<>> /\ paths = <<>> /\ baseDir = <<>>
  /\ zpc = "idle" /\ zret = NoErr
  /\ created = FALSE /\ finalized = FALSE /\ container = <<>> /\ commits = <<>>
  /\ jobsCh = <<>> /\ jobsClosed = FALSE /\ fi = 1
  /\ wk = [w \in Workers |-> [pc |-> "off", res |-> NoResult]]
  /\ resCh = <<>> /\ resClosed = FALSE
  /\ next = 0 /\ pending = {}
  /\ prepFailed = {} /\ reordered = FALSE

UnzipIdle ==
  /\ udest = <<>> /\ uentries = <<>>
  /\ upc = "idle" /\ ui = 1 /\ uret = NoErr
  /\ wpc = <<>>
  /\ sem = 0 /\ errOnce = <<>>
  /\ umkdirs = {} /\ ufiles = {} /\ urestored = {}
  /\ unotime = {} /\ ufailed = {} /\ uerrs = {}

ZipNext ==
  \/ ZipWalk
  \/ ZipCreate
  \/ FeederSend
  \/ FeederClose
  \/ \E w \in Workers : WorkerRecv(w)
  \/ \E w \in Workers : WorkerSend(w)
  \/ \E w \in Workers : WorkerExit(w)
  \/ CloseRes
  \/ WriterLoop
  \/ WriterDrain
  \/ WriterFlush

\* ZipParallelAll is called, UnzipParallelAll is not
PackInit == ZipInit /\ UnzipIdle

\* UnzipParallelAll is called, ZipParallelAll is not
UnpackInit == UnzipInit /\ ZipIdle

ZipSpec == PackInit /\ [][ZipNext]_vars

\* the Go scheduler does not stop while some goroutine (the caller with the
\* writer's loop, the feeder, the closer, a worker) is able to take a step.
\* For the walk and for a worker's receive, weak fairness is written through
\* the step's guard: the step ends its own enabling, so being fair to it is
\* not staying for ever where its guard holds
ZipFairness ==
  /\ WF_vars(\/ ZipCreate
             \/ FeederSend
             \/ FeederClose
             \/ \E w \in Workers : WorkerSend(w)
             \/ \E w \in Workers : WorkerExit(w)
             \/ CloseRes
             \/ WriterLoop
             \/ WriterDrain
             \/ WriterFlush)
  /\ []<>(zpc # "start")
  /\ \A w \in 1..NumCPU :
       []<>(~(w \in Workers /\ wk[w].pc = "recv" /\ jobsCh # <<>>))

\* ZipParallelAll under fair scheduling
ZipFairSpec == PackInit /\ [][ZipNext]_vars /\ ZipFairness

\* the Go scheduler does not stop while the caller or a restore worker is able
\* to take a step. For the steps that are always enabled where they stand (the
\* opening, the pre-pass, a worker that holds a permit) and end after finitely
\* many turns, weak fairness is written through the step's guard: the
\* goroutine does not stay there for ever
UnzipFairness ==
  /\ WF_vars(\/ Spawn
             \/ \E i \in UnzipEntries : Acquire(i)
             \/ WaitAll)
  /\ []<>(upc \notin {"open", "prepass"})
  /\ \A i \in 1..MaxEntries :
       []<>(~(i \in UnzipEntries /\ wpc[i] \in {"gate", "mkdir", "create", "copy"}))

\* UnzipParallelAll under fair scheduling
UnzipFairSpec == UnpackInit /\ [][UnzipNext]_vars /\ UnzipFairness

\* ZipParallelAll is called a second time, later, on the same source, after a
\* first call that succeeded; the first container is kept for comparison
Rerun ==
  /\ zpc = "done" /\ zret = NoErr /\ now = 1
  /\ now' = 2
  /\ prev' = container
  /\ zsrc' = <<>> /\ paths' = <<>> /\ baseDir' = <<>>
  /\ zpc' = "start"
  /\ created' = FALSE /\ finalized' = FALSE /\ container' = <<>> /\ commits' = <<>>
  /\ jobsCh' = <<>> /\ jobsClosed' = FALSE /\ fi' = 1
  /\ wk' = [w \in Workers |-> [pc |-> "off", res |-> NoResult]]
  /\ resCh' = <<>> /\ resClosed' = FALSE
  /\ next' = 0 /\ pending' = {}
  /\ prepFailed' = {} /\ reordered' = FALSE
  /\ UNCHANGED <<zipIn, zret>>
  /\ UNCHANGED unzipVars

ZipTwiceNext ==
  \/ ZipNext
  \/ Rerun

\* two runs of ZipParallelAll on one source
ZipTwiceSpec == PackInit /\ [][ZipTwiceNext]_vars

UnzipSpec == UnpackInit /\ [][UnzipNext]_vars

\* --------------------------------------------------------- packing claims
\* the sequence numbers 0 .. n-1 in order
UpTo(n) == [i \in 1..n |-> i - 1]

\* C1: whatever order the results arrive in, the entries are committed in
\* strictly increasing sequence-number order with no gap, which is the sorted
\* order of the walk
C1_CommitInWalkOrder ==
  /\ commits = UpTo(Len(commits))
  /\ \A i \in 1..(Len(paths) - 1) : StrLess(paths[i], paths[i + 1])

\* C1 witness: a pack of at least three paths finished with every entry
\* committed although some result had arrived ahead of its turn
C1_Witness ==
  /\ zpc = "done" /\ zret = NoErr /\ reordered
  /\ Len(paths) >= 3 /\ Len(commits) = Len(paths)

\* the loop returned the error of an entry
EntryErrorReturned == zpc = "done" /\ zret # NoErr /\ zret.idx >= 0

\* C2: the error the loop returns belongs to the lowest sequence number that
\* failed; every entry below it is committed and none above it
C2_EarliestErrorWins ==
  EntryErrorReturned =>
    /\ zret.idx = next
    /\ \A i \in prepFailed : i >= zret.idx
    /\ commits = UpTo(zret.idx)

\* C2 witness: the error of position k >= 1 is returned while the failure of a
\* higher position, which arrived earlier, sits in the holding area
C2_Witness ==
  /\ EntryErrorReturned /\ zret.idx >= 1
  /\ \E q \in pending : q.err # NoErr /\ q.idx > zret.idx

\* C3: on success every sequence number 0 .. N-1 is committed exactly once
C3_AllCommittedOnce ==
  (zpc = "done" /\ zret = NoErr) => commits = UpTo(Len(paths))

\* C3 witness: a successful pack of MaxPaths paths whose results were reordered
C3_Witness ==
  /\ zpc = "done" /\ zret = NoErr /\ reordered
  /\ Len(paths) = MaxPaths /\ Len(commits) = MaxPaths

\* C4: the container is finalized only after every sequence number has been
\* committed, so not when the loop returns an error early
C4_FinalizedOnlyWhenComplete ==
  finalized => Len(commits) = Len(paths)

\* the last element of a path that does not end in a separator
LastElement(p) == Elements(p)[Len(Elements(p))]

\* C10: packing one file gives a container of exactly one entry, named by the
\* file's base name, at any depth of the file's path
C10_SingleFileEntry ==
  ~zdir =>
    /\ \A i \in 1..Len(container) : container[i].name = LastElement(zarg)
    /\ Len(container) <= 1
    /\ (zpc = "done" /\ zret = NoErr => Len(container) = 1)

\* C10 witness: a file three directories deep was packed
C10_Witness ==
  /\ ~zdir /\ zpc = "done" /\ zret = NoErr
  /\ Len(Elements(zarg)) >= 4 /\ Len(container) = 1

\* ------------------------------------------------------- unpacking claims
\* the path p lies in the tree below root (or is root), judged on the
\* elements of the two cleaned paths
Inside(root, p) ==
  LET r == Clean(root)
      c == Clean(p)
      re == CleanedElems(r)
      ce == CleanedElems(c)
  IN  /\ (r[1] = Sep) = (c[1] = Sep)
      /\ Len(ce) >= Len(re)
      /\ SubSeq(ce, 1, Len(re)) = re
      /\ Len(ce) > Len(re) => ce[Len(re) + 1] # DotDot

\* the entries whose destination lies outside the destination root
Escaping == {i \in UnzipEntries : ~Inside(udest, Target(i))}

\* C5: nothing is created outside the destination root, and an archive with an
\* entry that escapes the root makes the operation return an error
C5_NoEscape ==
  /\ \A p \in umkdirs \cup ufiles : Inside(udest, p)
  /\ (upc = "done" /\ Escaping # {}) => uret # NoErr

\* the workers that hold a permit
Holding == {i \in UnzipEntries : wpc[i] \in {"gate", "mkdir", "create", "copy"}}
\* the workers whose destination file is open
OpenFiles == {i \in UnzipEntries : wpc[i] = "copy"}

\* C6: never more than the cap of workers hold a permit, nor are more
\* destination files open
C6_BoundedConcurrency ==
  /\ Cardinality(Holding) <= SemCap
  /\ Cardinality(OpenFiles) <= SemCap
  /\ sem = Cardinality(Holding)

\* C6 witness: every permit is taken, the files are open, and a further
\* worker waits for a permit
C6_Witness ==
  /\ Cardinality(OpenFiles) = SemCap
  /\ \E i \in UnzipEntries : wpc[i] = "wait"

\* the archive was opened and the destination root made (lines 271-280)
Unpacked == upc = "done" /\ uret.kind \notin {"openreader", "mkdirdest"}

\* C7: an error is returned exactly when some entry failed, and it is one of
\* the errors that occurred; a failed os.Chtimes is no failure
C7_ErrorIffFailure ==
  Unpacked =>
    /\ (uret # NoErr) <=> (ufailed # {})
    /\ uret # NoErr => uret \in uerrs

\* C7 witness: two workers failed, one error came back, and a third entry was
\* restored although its os.Chtimes failed
C7_Witness ==
  /\ Unpacked /\ uret # NoErr
  /\ Cardinality(ufailed) >= 2 /\ unotime # {}

\* the entries that failed, and those the gate rejects whenever it is asked
Failing == ufailed \cup {i \in UnzipEntries : ensureInside(udest, Target(i)) # NoErr}

\* the entry i is on disk
Restored(i) ==
  IF IsDirEntry(uentries[i]) THEN Target(i) \in umkdirs ELSE i \in urestored

\* C8: when entries have failed, file entries or directory entries, one error
\* is returned and, by the return, every entry that neither failed nor is one
\* the gate rejects has been restored. The premise asks for one entry that
\* has failed: after a directory entry has failed no second entry can, for the
\* pre-pass returns at the first
C8_OthersRestored ==
  (Unpacked /\ ufailed # {}) =>
    /\ uret # NoErr
    /\ \A i \in UnzipEntries \ Failing : Restored(i)

\* C9: a worker runs only after the pre-pass is over and every directory
\* entry of the archive has been created
C9_DirectoriesFirst ==
  (\E i \in UnzipEntries : wpc[i] # "none") =>
    /\ upc \in {"spawn", "wait", "done"}
    /\ \A j \in UnzipEntries : IsDirEntry(uentries[j]) => Target(j) \in umkdirs

\* C9 witness: a worker runs on an archive that lists a directory after a file
C9_Witness ==
  /\ \E i \in UnzipEntries : wpc[i] \in {"gate", "mkdir", "create", "copy"}
  /\ \E i, j \in UnzipEntries : i < j /\ ~IsDirEntry(uentries[i]) /\ IsDirEntry(uentries[j])

\* ------------------------------------------------ packing claims, continued
\* the results the workers have made that are still on their way to the
\* container: being sent, in resCh, or held by the writer
InFlight ==
  {wk[w].res : w \in {v \in DOMAIN wk : wk[v].pc = "send"}}
    \cup {resCh[i] : i \in 1..Len(resCh)}
    \cup pending

\* C11: for a whole directory the result of the root has no header and no
\* content, so the container gets no entry for the root; every other
\* directory has a header whose name ends in "/" and no content function
C11_RootNotWritten ==
  \A r \in InFlight :
    (r.err = NoErr /\ IsDirPath(paths[r.idx + 1])) =>
      /\ ~r.write
      /\ IF paths[r.idx + 1] = zsrc THEN r.hdr = NoHdr
         ELSE r.hdr # NoHdr /\ r.hdr.name[Len(r.hdr.name)] = Sep

\* C12: when the walk fails, its error is returned before the archive file is
\* created: no file, no container, no worker and no job
C12_WalkErrorCreatesNothing ==
  zret.kind = "walk" =>
    /\ zpc = "done"
    /\ ~created /\ ~finalized /\ container = <<>>
    /\ \A w \in Workers : wk[w].pc = "off"
    /\ jobsCh = <<>> /\ resCh = <<>>

\* C12 witness: the walk of a directory that holds something failed
C12_Witness ==
  /\ zpc = "done" /\ zret.kind = "walk"
  /\ zdir /\ zkids # {}

\* C13: a second run over the same source, started later and interleaved in
\* any way, makes the same container as the first: the same entries in the
\* same order with the same header fields
C13_SameContainerTwice ==
  (now = 2 /\ zpc = "done" /\ zret = NoErr) => container = prev

\* C14: after ZipParallelAll has returned no preparer worker is left blocked:
\* nothing receives from the result channel once the writer is gone, so a
\* worker holding a result while the channel is full never terminates
C14_NoWorkerBlockedAfterReturn ==
  zpc = "done" =>
    \A w \in Workers : ~(wk[w].pc = "send" /\ Len(resCh) = ChanCap)

\* C15: under fair scheduling ZipParallelAll returns, and when it returns
\* without an error the feeder has closed the job queue, every worker has
\* exited, the result queue is closed and all N entries are committed
C15_PackingTerminates ==
  <>(/\ zpc = "done"
     /\ zret = NoErr =>
          /\ commits = UpTo(Len(paths))
          /\ jobsClosed /\ resClosed /\ jobsCh = <<>> /\ resCh = <<>>
          /\ \A w \in Workers : wk[w].pc = "done")

\* C15 witness: MaxPaths paths, none failed, and every result but the next
\* expected one (sequence number 0) has arrived and is held
C15_Witness ==
  /\ zpc = "loop" /\ next = 0 /\ prepFailed = {}
  /\ Len(paths) = MaxPaths
  /\ Cardinality(pending) = MaxPaths - 1

\* the writer returned an error before the last entry
Aborted == zpc = "done" /\ zret # NoErr

\* how many times the sequence number k is in the pipeline: its path not yet
\* fed, its path in jobsCh, its result with a worker, in resCh, held, committed
Copies(k) ==
    (IF k + 1 >= fi THEN 1 ELSE 0)
  + Cardinality({i \in 1..Len(jobsCh) : jobsCh[i] = paths[k + 1]})
  + Cardinality({w \in Workers : wk[w].pc = "send" /\ wk[w].res.idx = k})
  + Cardinality({i \in 1..Len(resCh) : resCh[i].idx = k})
  + Cardinality({q \in pending : q.idx = k})
  + Cardinality({i \in 1..Len(commits) : commits[i] = k})

\* what os.Stat and zip.FileInfoHeader did for the result r
OutcomeOf(r) ==
  IF r.err = NoErr THEN "ok" ELSE IF r.err.kind = "stat" THEN "stat" ELSE "hdr"

\* C18: as long as the writer has not aborted, every sequence number 0 .. N-1
\* is in the pipeline exactly once, the result a worker has made is the one
\* made from the path its sequence number names, and once all workers have
\* finished every sequence number has its result
C18_OneResultPerPath ==
  ~Aborted =>
    /\ \A k \in 0..(Len(paths) - 1) : Copies(k) = 1
    /\ \A r \in InFlight : r.idx \in 0..(Len(paths) - 1)
    /\ \A w \in Workers :
         wk[w].pc = "send" =>
           wk[w].res = Prepare(paths[wk[w].res.idx + 1], OutcomeOf(wk[w].res))
    /\ (created /\ \A w \in Workers : wk[w].pc = "done") =>
         \A k \in 0..(Len(paths) - 1) :
           \/ \E r \in InFlight : r.idx = k
           \/ \E i \in 1..Len(commits) : commits[i] = k

\* C18 witness: all workers have finished MaxPaths paths, one of them with an
\* error; results wait in resCh and in the holding area, none is committed
C18_Witness ==
  /\ created /\ ~Aborted /\ \A w \in Workers : wk[w].pc = "done"
  /\ Len(paths) = MaxPaths /\ prepFailed # {}
  /\ resCh # <<>> /\ pending # {} /\ commits = <<>>

\* ---------------------------------------------- unpacking claims, continued
\* the parallel pass has started: a worker was spawned
PassStarted == \E i \in UnzipEntries : wpc[i] # "none"

\* C16: once a worker has been spawned, UnzipParallelAll returns only after
\* every file entry's worker has run to its own end, restoring its entry or
\* failing on it; no worker is cancelled or skipped because another failed
C16_ReturnsAfterAllWorkers ==
  (upc = "done" /\ PassStarted) =>
    \A i \in UnzipEntries :
      ~IsDirEntry(uentries[i]) =>
        /\ wpc[i] = "done"
        /\ i \in ufailed \cup urestored

\* C16 witness: the operation returned an error; an earlier worker failed and
\* a later one went on to restore its entry, all MaxEntries entries being files
C16_Witness ==
  /\ upc = "done" /\ uret # NoErr
  /\ Len(uentries) = MaxEntries
  /\ \A i \in UnzipEntries : wpc[i] = "done"
  /\ \E i \in ufailed, j \in urestored : i < j

\* C17: under fair scheduling every spawned worker gets a permit and
\* finishes, whatever way the workers before it ended, and no permit is held
\* when UnzipParallelAll has returned
C17_PermitsNeverLeak ==
  /\ \A i \in 1..MaxEntries :
       (i \in UnzipEntries /\ wpc[i] = "wait")
         ~> (i \in UnzipEntries /\ wpc[i] = "done")
  /\ [](upc = "done" => sem = 0)

\* C17 witness: more file entries than permits; SemCap workers have failed, a
\* later worker has been given a permit, and the operation has returned
C17_Witness ==
  /\ upc = "done" /\ sem = 0
  /\ Cardinality(ufailed) >= SemCap
  /\ \E j \in urestored : \A i \in ufailed : i < j

\* the file entries whose worker reported a failure
WorkerFailures == {i \in ufailed : ~IsDirEntry(uentries[i])}

\* C19: the slot holds at most one error; it is filled by the first worker
\* that reports a failure and is not written again: what it holds stays until
\* UnzipParallelAll takes it out and returns it; a worker that reports, first
\* or later, goes on to its end
C19_FirstErrorKept ==
  /\ [](Len(errOnce) <= 1)
  /\ [](upc # "done" => (errOnce = <<>> <=> WorkerFailures = {}))
  /\ [](\A i \in WorkerFailures : wpc[i] = "done")
  /\ [][errOnce # <<>> =>
          \/ errOnce' = errOnce
          \/ upc' = "done" /\ uret' = Head(errOnce) /\ errOnce' = <<>>]_vars

\* C19 witness: two workers reported different failures and the operation
\* returned one of them
C19_Witness ==
  /\ upc = "done" /\ Cardinality(WorkerFailures) >= 2
  /\ uret \in uerrs
  /\ \E e \in uerrs : e # uret

\* an entry name made of ordinary segments: no parent-directory segment
Benign(name) ==
  \A k \in 1..Len(Elements(name)) : Elements(name)[k] # DotDot

\* C20: the gate rejects no benign entry, whatever the destination root: no
\* zip-slip error is raised for the destination of such an entry
C20_BenignNeverRejected ==
  \A i \in UnzipEntries :
    Benign(uentries[i]) => Err("zip slip", Target(i), -1) \notin uerrs

=============================================================================
